---- MODULE Spec2Model ----
(***************************************************************************)
(* kpfm, the Kubernetes port-forward manager.                              *)
(*                                                                         *)
(* The programs are modelled each with its own specification:             *)
(*   SpecWatch  kube.WatchContextChanges polling the kubeconfig and a      *)
(*              consumer of its notification channel;                      *)
(*   SpecLoop   the same watcher running for ever, under fair scheduling;  *)
(*   SpecResolve  kube.GetPodName called against every cluster answer;     *)
(*   SpecMain   package main with the status monitor: setupPortForward,    *)
(*              findService and main, sharing one sync.WaitGroup and one   *)
(*              unbuffered status channel;                                 *)
(*   SpecSup    kube.SetupPortForward workers and WatchContextChanges      *)
(*              driven by the supervisor event loop of the design.         *)
(***************************************************************************)
EXTENDS Integers, Sequences, FiniteSets, TLC

VARIABLES
    \* the kubeconfig's current-context, as GetCurrentContext reads it
    kubeContext,
    \* WatchContextChanges: lastContext, position, value being sent on notifyChan
    lastContext, watchPc, notifyVal,
    \* history: values of the successful reads, notifications received, and
    \* for each failed read the number of successful reads made before it
    reads, sent, failedAt,
    \* package main: the Config read at startup, the services main has yet to
    \* launch, main's position, the WaitGroup counter, the setupPortForward
    \* calls made so far, the monitor's position and the status it handles,
    \* and how the process ended ("no" while it runs)
    config, launchQueue, mainPc, wgCount, workers, monitorPc, status, exited,
    \* the supervisor: the Contexts read at startup, the active context, the
    \* event loop's position, the context it is switching to, its map from
    \* serviceIdentity to worker, and the SetupPortForward calls made so far
    contexts, active, supPc, pending, records, forwards,
    \* kube.GetPodName called on its own: what the cluster answers to its two
    \* calls, and the answer and the result of the last call made
    cluster, resolution

watchVars ==
    <<kubeContext, lastContext, watchPc, notifyVal, reads, sent, failedAt>>

mainVars ==
    <<config, launchQueue, mainPc, wgCount, workers, monitorPc, status, exited>>

supVars == <<contexts, active, supPc, pending, records, forwards>>

resolveVars == <<cluster, resolution>>

vars == <<watchVars, mainVars, supVars, resolveVars>>

(***************************************************************************)
(* Bounds                                                                  *)
(***************************************************************************)
\* successful reads of the kubeconfig that the history records
MaxReads == 4

\* failed reads of the kubeconfig that the history records
MaxFails == 2

\* notifications up to which the operator goes on switching the context in
\* the runs of the watcher that keep no history of the reads
MaxNotifies == 3

\* setupPortForward calls over one run of package main, restarts included
MaxWorkers == 3

\* SetupPortForward calls over one run of the supervisor
MaxForwards == 2

\* notifications of a context change over one run of the supervisor
MaxSwitches == 1

(***************************************************************************)
(* Kube contexts                                                           *)
(***************************************************************************)
\* names of the kube contexts that a kubeconfig may select
ContextNames == {"dev", "staging"}

\* config.CurrentContext: a context name, or "" when the kubeconfig sets none
CurrentContextValues == ContextNames \cup {""}

(***************************************************************************)
(* kube.WatchContextChanges                                                *)
(***************************************************************************)
\* ShouldNotify without the test for a baseline, the fault that C6 excludes
ShouldNotifyNoBaseline(currentContext, last) ==
    currentContext # last

\* if currentContext != lastContext && lastContext != ""
ShouldNotify(currentContext, last) ==
    currentContext # last /\ last # ""

\* one tick whose GetCurrentContext succeeded with currentContext: either
\* the watcher starts the send on notifyChan, or it stores the value
WatchRead(currentContext) ==
    /\ watchPc = "tick"
    /\ IF ShouldNotify(currentContext, lastContext)
       THEN /\ watchPc' = "send"
            /\ notifyVal' = currentContext
            /\ UNCHANGED lastContext
       ELSE /\ lastContext' = currentContext
            /\ UNCHANGED <<watchPc, notifyVal>>

\* WatchSent storing the context as it is when the send completes instead
\* of the value that was read and sent, the fault that C18 excludes
WatchSentStoresLater ==
    /\ watchPc = "send"
    /\ watchPc' = "tick"
    /\ lastContext' = kubeContext
    /\ notifyVal' = ""

\* the send on notifyChan completes (a receiver took the value); the watcher
\* then stores the value and waits for the next tick
WatchSent ==
    /\ watchPc = "send"
    /\ watchPc' = "tick"
    /\ lastContext' = notifyVal
    /\ notifyVal' = ""

\* the operator switches the kube context (kubectl config use-context)
SwitchContext ==
    /\ \E c \in CurrentContextValues :
          /\ c # kubeContext
          /\ kubeContext' = c
    /\ UNCHANGED <<lastContext, watchPc, notifyVal, reads, sent, failedAt>>
    /\ UNCHANGED <<mainVars, supVars, resolveVars>>

\* a failed read handled without the continue: the loop body goes on with
\* the "" that GetCurrentContext returned, the fault that C13 excludes
WatchFailedFallsThrough ==
    WatchRead("")

\* if err != nil: the error is printed and the loop continues
WatchFailed ==
    /\ watchPc = "tick"
    /\ UNCHANGED <<lastContext, watchPc, notifyVal>>

\* a tick on which GetCurrentContext returns an error
WatchTickFail ==
    /\ Len(failedAt) < MaxFails
    /\ WatchFailed
    /\ failedAt' = Append(failedAt, Len(reads))
    /\ UNCHANGED <<kubeContext, reads, sent>>
    /\ UNCHANGED <<mainVars, supVars, resolveVars>>

\* a tick on which GetCurrentContext returns the current context
WatchTickOk ==
    /\ Len(reads) < MaxReads
    /\ WatchRead(kubeContext)
    /\ reads' = Append(reads, kubeContext)
    /\ UNCHANGED <<kubeContext, sent, failedAt>>
    /\ UNCHANGED <<mainVars, supVars, resolveVars>>

\* the consumer of notifyChan receives the notification
NotifyReceive ==
    /\ WatchSent
    /\ sent' = Append(sent, [value |-> notifyVal, last |-> lastContext])
    /\ UNCHANGED <<kubeContext, reads, failedAt>>
    /\ UNCHANGED <<mainVars, supVars, resolveVars>>

\* the watcher before its first tick
WatchStart ==
    /\ lastContext = ""
    /\ watchPc = "tick"
    /\ notifyVal = ""
    /\ reads = <<>>
    /\ sent = <<>>
    /\ failedAt = <<>>

\* package main is not part of the run
MainAbsent ==
    /\ config = <<>>
    /\ launchQueue = <<>>
    /\ mainPc = "absent"
    /\ wgCount = 0
    /\ workers = <<>>
    /\ monitorPc = "off"
    /\ status = [ServiceName |-> "", Err |-> "", from |-> 0]
    /\ exited = "no"

\* GetPodName is not called on its own in the run
ResolveAbsent ==
    /\ cluster = [service |-> "error", listErr |-> FALSE, items |-> <<>>]
    /\ resolution = [called |-> FALSE]

\* the supervisor is not part of the run
SupAbsent ==
    /\ contexts = <<>>
    /\ active = ""
    /\ supPc = "absent"
    /\ pending = ""
    /\ records = <<>>
    /\ forwards = <<>>

InitWatch ==
    /\ kubeContext \in CurrentContextValues
    /\ WatchStart
    /\ MainAbsent
    /\ SupAbsent
    /\ ResolveAbsent

NextWatch ==
    \/ SwitchContext
    \/ WatchTickFail
    \/ WatchTickOk
    \/ NotifyReceive

SpecWatch == InitWatch /\ [][NextWatch]_vars

(***************************************************************************)
(* kube.WatchContextChanges running for ever, without history of the reads *)
(***************************************************************************)
\* the names of the contexts of the kubeconfig, none of them empty
KubeconfigContexts == ContextNames \cup {"prod"}

\* the operator switches to another context of the kubeconfig
UseContext ==
    /\ Len(sent) + (IF watchPc = "send" THEN 1 ELSE 0) < MaxNotifies
    /\ \E c \in KubeconfigContexts :
          /\ c # kubeContext
          /\ kubeContext' = c
    /\ UNCHANGED <<lastContext, watchPc, notifyVal, reads, sent, failedAt>>
    /\ UNCHANGED <<mainVars, supVars, resolveVars>>

\* a tick on which GetCurrentContext returns the current context
LoopTickOk ==
    /\ WatchRead(kubeContext)
    /\ UNCHANGED <<kubeContext, reads, sent, failedAt>>
    /\ UNCHANGED <<mainVars, supVars, resolveVars>>

\* a tick on which GetCurrentContext returns an error
LoopTickFail ==
    /\ WatchFailed
    /\ UNCHANGED <<kubeContext, reads, sent, failedAt>>
    /\ UNCHANGED <<mainVars, supVars, resolveVars>>

InitLoop ==
    /\ kubeContext \in KubeconfigContexts
    /\ WatchStart
    /\ MainAbsent
    /\ SupAbsent
    /\ ResolveAbsent

NextLoop ==
    \/ UseContext
    \/ LoopTickOk
    \/ LoopTickFail
    \/ NotifyReceive

\* time.Tick goes on ticking, reads succeed again and again, and the
\* consumer of notifyChan receives every value that the watcher sends
SpecLoop ==
    /\ InitLoop
    /\ [][NextLoop]_vars
    /\ WF_vars(LoopTickOk)
    /\ WF_vars(NotifyReceive)

(***************************************************************************)
(* Properties of WatchContextChanges                                       *)
(***************************************************************************)
\* the values that differ from the successful read before them, in order
RECURSIVE Changes(_)
Changes(rs) ==
    IF Len(rs) < 2 THEN <<>>
    ELSE LET front == SubSeq(rs, 1, Len(rs) - 1)
         IN  IF rs[Len(rs)] # rs[Len(rs) - 1]
             THEN Append(Changes(front), rs[Len(rs)])
             ELSE Changes(front)

\* the notifications sent so far: the received ones, then the one in flight
Notified ==
    [i \in 1..Len(sent) |-> sent[i].value]
        \o (IF watchPc = "send" THEN <<notifyVal>> ELSE <<>>)

\* C5: after every tick, the notifications sent are exactly the values that
\* differ from the previous successful read, one notification per change,
\* and between ticks the stored baseline is the value of the last read.
C5_NotifyOnEveryChange ==
    /\ Notified = Changes(reads)
    /\ (watchPc = "tick" /\ reads # <<>>) => lastContext = reads[Len(reads)]

\* C6: no notification is sent for the first successful read, a tick whose
\* read equals the previous successful read sends nothing, and every
\* notification carries a value that differs from the previously observed one.
C6_NotifyOnlyOnChange ==
    /\ Len(reads) <= 1 => Notified = <<>>
    /\ watchPc = "send" =>
          /\ Len(reads) >= 2
          /\ notifyVal = reads[Len(reads)]
          /\ notifyVal # reads[Len(reads) - 1]
    /\ (Len(reads) >= 2 /\ reads[Len(reads)] = reads[Len(reads) - 1]) =>
          watchPc # "send"
    /\ \A i \in 1..Len(sent) : sent[i].value # sent[i].last
    /\ Len(Notified) <= Len(Changes(reads))

\* the reads dev, dev, staging were made and one notification was received
C6_Witness ==
    /\ Len(reads) = 3
    /\ reads[1] = reads[2]
    /\ reads[1] # ""
    /\ reads[3] # reads[2]
    /\ Len(sent) = 1
    /\ sent[1].value = reads[3]

(***************************************************************************)
(* The cluster, as the workers see it                                      *)
(***************************************************************************)
PodNames == {"pod-0", "pod-1"}

\* the listings of pods that match a selector, in listing order
PodLists ==
    {<<>>} \cup {<<p>> : p \in PodNames}
           \cup {<<p, q>> : p, q \in PodNames}

\* what the cluster answers to the two calls of GetPodName: the service
\* lookup (an error, a service without selector, a service with one), and
\* the pod listing (an error, or the items)
ClusterAnswers ==
    [service : {"error", "noSelector", "found"},
     listErr : BOOLEAN,
     items : PodLists]

\* the steps of a worker's setup that can fail apart from the resolution of
\* the pod: BuildConfigFromFlags, NewForConfig, RoundTripperFor,
\* portforward.New
SetupFailures == {"kubeconfig", "clientset", "roundTripper", "forwarder"}

(***************************************************************************)
(* package main: Config, getPodNameFromService, findService                *)
(***************************************************************************)
ProfileNames == ContextNames

ServiceNames == {"api", "db"}

\* the namespace that the services of a profile live in
ProfileNamespace(p) ==
    IF p = "dev" THEN "ns1" ELSE "ns2"

\* type Service struct: the services that profile p may list
Services(p) ==
    [Name : ServiceNames, Namespace : {ProfileNamespace(p)},
     LocalPort : {8080}, RemotePort : {80}]

\* the zero value Service{}
EmptyService ==
    [Name |-> "", Namespace |-> "", LocalPort |-> 0, RemotePort |-> 0]

\* Profile.Services: the profile lists no service, or one
ServiceLists(p) ==
    {<<>>} \cup {<<service>> : service \in Services(p)}

\* type Config struct: Profiles map[string]Profile
Configs ==
    {cfg \in [ProfileNames -> UNION {ServiceLists(p) : p \in ProfileNames}] :
        \A p \in ProfileNames : cfg[p] \in ServiceLists(p)}

\* getPodNameFromService: the pod name and the error ("" for nil)
getPodNameFromService(answer) ==
    IF answer.service = "error"
    THEN [podName |-> "", err |-> "services not found"]
    ELSE IF answer.service = "noSelector"
    THEN [podName |-> "", err |-> "service has no selector"]
    ELSE IF answer.listErr
    THEN [podName |-> "", err |-> "pods list failed"]
    ELSE IF Len(answer.items) = 0
    THEN [podName |-> "", err |-> "no pods found for this service"]
    ELSE [podName |-> answer.items[1], err |-> ""]

\* the first service named serviceName in one profile's list
FirstNamed(list, serviceName) ==
    LET hits == {i \in DOMAIN list : list[i].Name = serviceName}
    IN  list[CHOOSE i \in hits : \A j \in hits : i <= j]

\* findService: the profiles are visited in the order of Go's map iteration,
\* which is not specified, so the result is the first match of any profile
\* that has one; Service{} if no profile has one
findService(cfg, serviceName) ==
    LET having == {p \in DOMAIN cfg :
                      \E i \in DOMAIN cfg[p] : cfg[p][i].Name = serviceName}
    IN  IF having = {} THEN {EmptyService}
        ELSE {FirstNamed(cfg[p], serviceName) : p \in having}

(***************************************************************************)
(* package main: setupPortForward                                          *)
(***************************************************************************)
\* one call of setupPortForward: the service, the position of the call
\* itself (outer) and of the goroutine that runs ForwardPorts (inner),
\* whether readyChan is closed, the error ForwardPorts returned, and the
\* call whose failure this call was started for (0: started by main's loop)
NewWorker(service, replaces) ==
    [service |-> service, outer |-> "setup", inner |-> "none",
     ready |-> FALSE, err |-> "", replaces |-> replaces]

\* the first step of the setup that fails, in the order of the code, given
\* which library call fails and what the cluster answers; "none" if all pass
FailedStep(failure, answer) ==
    IF failure \in {"kubeconfig", "clientset", "roundTripper"} THEN failure
    ELSE IF getPodNameFromService(answer).err # "" THEN "resolve"
    ELSE IF failure = "forwarder" THEN "forwarder"
    ELSE "none"

\* failures reported or still to be reported that have no replacement yet
Unreplaced ==
    {w \in DOMAIN workers :
        /\ workers[w].err # ""
        /\ \A x \in DOMAIN workers : workers[x].replaces # w}

\* setupPortForward up to the start of the forwarding goroutine: every
\* failure is log.Fatal, which ends the process; otherwise wg.Add(1), go
SetupForward ==
  \E w \in DOMAIN workers :
    /\ exited = "no"
    /\ workers[w].outer = "setup"
    /\ \E step \in {FailedStep(failure, answer) :
                        failure \in SetupFailures \cup {"none"},
                        answer \in ClusterAnswers} :
              IF step # "none"
              THEN /\ exited' = step
                   /\ UNCHANGED <<wgCount, workers>>
              ELSE /\ wgCount' = wgCount + 1
                   /\ workers' = [workers EXCEPT ![w].outer = "waitReady",
                                                 ![w].inner = "forward"]
                   /\ UNCHANGED exited
    /\ UNCHANGED <<config, launchQueue, mainPc, monitorPc, status>>
    /\ UNCHANGED <<watchVars, supVars, resolveVars>>

\* ForwardPorts has set up its listeners: it closes readyChan
TunnelReady ==
  \E w \in DOMAIN workers :
    /\ exited = "no"
    /\ workers[w].inner = "forward"
    /\ ~workers[w].ready
    /\ workers' = [workers EXCEPT ![w].ready = TRUE]
    /\ UNCHANGED <<config, launchQueue, mainPc, wgCount, monitorPc, status,
                   exited>>
    /\ UNCHANGED <<watchVars, supVars, resolveVars>>

\* <-readyChan returns; setupPortForward returns and its deferred wg.Done runs
SetupReturn ==
  \E w \in DOMAIN workers :
    /\ exited = "no"
    /\ workers[w].outer = "waitReady"
    /\ workers[w].ready
    /\ workers' = [workers EXCEPT ![w].outer = "returned"]
    /\ wgCount' = wgCount - 1
    /\ UNCHANGED <<config, launchQueue, mainPc, monitorPc, status, exited>>
    /\ UNCHANGED <<watchVars, supVars, resolveVars>>

\* the errors ForwardPorts can return: before the tunnel is ready it fails
\* to dial or to listen; once ready it ends when the connection to the pod
\* is lost, with an error or, as stopChan is never closed here, with nil
ForwardPortsErrors(ready) ==
    IF ready THEN {"lost connection to pod", ""}
    ELSE {"error upgrading connection"}

\* ForwardPorts returns; the goroutine starts its send on statusCh
ForwardPortsReturn ==
  \E w \in DOMAIN workers :
    /\ exited = "no"
    /\ workers[w].inner = "forward"
    /\ \E err \in ForwardPortsErrors(workers[w].ready) :
          /\ err # "" => Len(workers) + Cardinality(Unreplaced) < MaxWorkers
          /\ workers' = [workers EXCEPT ![w].inner = "send", ![w].err = err]
    /\ UNCHANGED <<config, launchQueue, mainPc, wgCount, monitorPc, status,
                   exited>>
    /\ UNCHANGED <<watchVars, supVars, resolveVars>>

\* the goroutine's deferred wg.Done, after its send on statusCh completed
ForwardDone ==
  \E w \in DOMAIN workers :
    /\ exited = "no"
    /\ workers[w].inner = "sent"
    /\ workers' = [workers EXCEPT ![w].inner = "done"]
    /\ wgCount' = wgCount - 1
    /\ UNCHANGED <<config, launchQueue, mainPc, monitorPc, status, exited>>
    /\ UNCHANGED <<watchVars, supVars, resolveVars>>

(***************************************************************************)
(* package main: main                                                      *)
(***************************************************************************)
NoStatus == [ServiceName |-> "", Err |-> "", from |-> 0]

\* ShouldRestart without the test of the error, the fault that C9 excludes
ShouldRestartAlways(st) ==
    TRUE

\* if status.Err != nil
ShouldRestart(st) ==
    st.Err # ""

\* the orders in which a range over the Profiles map may visit them
ProfileOrders ==
    {o \in [1..Cardinality(ProfileNames) -> ProfileNames] :
        \A i, j \in DOMAIN o : i # j => o[i] # o[j]}

\* the services of the profiles visited in order o, from its i-th on
RECURSIVE ServicesFrom(_, _, _)
ServicesFrom(cfg, o, i) ==
    IF i > Len(o) THEN <<>> ELSE cfg[o[i]] \o ServicesFrom(cfg, o, i + 1)

\* the services in the orders in which main's loops may launch them
LaunchOrders(cfg) ==
    {ServicesFrom(cfg, o, 1) : o \in ProfileOrders}

\* one turn of main's loops over the profiles and their services:
\* wg.Add(1); go setupPortForward(service, &wg, statusCh)
MainLaunch ==
    /\ exited = "no"
    /\ mainPc = "launch"
    /\ launchQueue # <<>>
    /\ wgCount' = wgCount + 1
    /\ workers' = Append(workers, NewWorker(Head(launchQueue), 0))
    /\ launchQueue' = Tail(launchQueue)
    /\ UNCHANGED <<config, mainPc, monitorPc, status, exited>>
    /\ UNCHANGED <<watchVars, supVars, resolveVars>>

\* the loops are over: main starts the monitor goroutine and calls wg.Wait
MainMonitor ==
    /\ exited = "no"
    /\ mainPc = "launch"
    /\ launchQueue = <<>>
    /\ mainPc' = "wait"
    /\ monitorPc' = "recv"
    /\ UNCHANGED <<config, launchQueue, wgCount, workers, status, exited>>
    /\ UNCHANGED <<watchVars, supVars, resolveVars>>

\* wg.Wait returns when the counter is zero; main returns, the process ends
MainWait ==
    /\ exited = "no"
    /\ mainPc = "wait"
    /\ wgCount = 0
    /\ exited' = "main"
    /\ UNCHANGED <<config, launchQueue, mainPc, wgCount, workers, monitorPc,
                   status>>
    /\ UNCHANGED <<watchVars, supVars, resolveVars>>

\* the monitor receives from statusCh the status that worker w is sending
MonitorReceive ==
  \E w \in DOMAIN workers :
    /\ exited = "no"
    /\ monitorPc = "recv"
    /\ workers[w].inner = "send"
    /\ workers' = [workers EXCEPT ![w].inner = "sent"]
    /\ LET st == [ServiceName |-> workers[w].service.Name,
                  Err |-> workers[w].err, from |-> w]
       IN  IF ShouldRestart(st)
           THEN monitorPc' = "restart" /\ status' = st
           ELSE UNCHANGED <<monitorPc, status>>
    /\ UNCHANGED <<config, launchQueue, mainPc, wgCount, exited>>
    /\ UNCHANGED <<watchVars, supVars, resolveVars>>

\* wg.Add(1); go setupPortForward(findService(services, status.ServiceName))
MonitorRestart ==
    /\ exited = "no"
    /\ monitorPc = "restart"
    /\ \E service \in findService(config, status.ServiceName) :
          workers' = Append(workers, NewWorker(service, status.from))
    /\ wgCount' = wgCount + 1
    /\ monitorPc' = "recv"
    /\ status' = NoStatus
    /\ UNCHANGED <<config, launchQueue, mainPc, exited>>
    /\ UNCHANGED <<watchVars, supVars, resolveVars>>

InitMain ==
    /\ kubeContext \in ContextNames
    /\ WatchStart
    /\ config \in Configs
    /\ launchQueue \in LaunchOrders(config)
    /\ mainPc = "launch"
    /\ wgCount = 0
    /\ workers = <<>>
    /\ monitorPc = "off"
    /\ status = NoStatus
    /\ exited = "no"
    /\ SupAbsent
    /\ ResolveAbsent

NextMain ==
    \/ MainLaunch
    \/ MainMonitor
    \/ MainWait
    \/ MonitorRestart
    \/ SetupForward
    \/ TunnelReady
    \/ SetupReturn
    \/ ForwardPortsReturn
    \/ ForwardDone
    \/ MonitorReceive

SpecMain == InitMain /\ [][NextMain]_vars

(***************************************************************************)
(* package model: Connection, Context, Contexts                            *)
(***************************************************************************)
\* type Connection struct: the connections that context ctx may list
Connections(ctx) ==
    [ServiceName : {"", "api"}, PodName : {"", "pod-0"},
     RemoteServicePort : {80}, RemotePodPort : {0},
     Namespace : {ProfileNamespace(ctx)}, LocalPort : {8080}]

\* Context.Connections: the context lists no connection, or one
ConnectionLists(ctx) ==
    {<<>>} \cup {<<connection>> : connection \in Connections(ctx)}

\* type Contexts struct: the context dev alone, or the contexts dev and
\* staging, where staging lists no connection or one that names a service
ContextSets ==
    {<<[Name |-> "dev", Connections |-> l]>> : l \in ConnectionLists("dev")}
    \cup
    {<<[Name |-> "dev", Connections |-> l],
       [Name |-> "staging", Connections |-> m]>> :
        l \in ConnectionLists("dev"),
        m \in {n \in ConnectionLists("staging") :
                  \A i \in DOMAIN n : n[i].ServiceName # "" /\ n[i].PodName = ""}}

(***************************************************************************)
(* kube.GetPodName                                                         *)
(***************************************************************************)
\* GetPodName returning the last pod of the listing, the fault that C14
\* excludes
GetPodNameLastPod(answer) ==
    IF answer.service = "error"
    THEN [podName |-> "", err |-> "services not found"]
    ELSE IF answer.service = "noSelector"
    THEN [podName |-> "", err |-> "service has no selector"]
    ELSE IF answer.listErr
    THEN [podName |-> "", err |-> "pods list failed"]
    ELSE IF Len(answer.items) = 0
    THEN [podName |-> "", err |-> "no pods found for this service"]
    ELSE [podName |-> answer.items[Len(answer.items)], err |-> ""]

\* GetPodName: the pod name and the error ("" for nil)
GetPodName(answer) ==
    IF answer.service = "error"
    THEN [podName |-> "", err |-> "services not found"]
    ELSE IF answer.service = "noSelector"
    THEN [podName |-> "", err |-> "service has no selector"]
    ELSE IF answer.listErr
    THEN [podName |-> "", err |-> "pods list failed"]
    ELSE IF Len(answer.items) = 0
    THEN [podName |-> "", err |-> "no pods found for this service"]
    ELSE [podName |-> answer.items[1], err |-> ""]

\* the service or the pods of the cluster change
ClusterChange ==
    /\ \E answer \in ClusterAnswers :
          /\ answer # cluster
          /\ cluster' = answer
    /\ UNCHANGED resolution
    /\ UNCHANGED <<watchVars, mainVars, supVars>>

\* a call of GetPodName against the cluster as it is
ResolveCall ==
    /\ LET result == GetPodName(cluster)
       IN  resolution' = [called |-> TRUE, answer |-> cluster,
                          podName |-> result.podName, err |-> result.err]
    /\ UNCHANGED cluster
    /\ UNCHANGED <<watchVars, mainVars, supVars>>

InitResolve ==
    /\ kubeContext \in CurrentContextValues
    /\ WatchStart
    /\ MainAbsent
    /\ SupAbsent
    /\ cluster \in ClusterAnswers
    /\ resolution = [called |-> FALSE]

NextResolve ==
    \/ ClusterChange
    \/ ResolveCall

SpecResolve == InitResolve /\ [][NextResolve]_vars

(***************************************************************************)
(* kube.SetupPortForward                                                   *)
(***************************************************************************)
\* one call of SetupPortForward: the connection, the position of the call
\* and of its forwarding goroutine (setup, forward, send: sending on
\* statusCh, done: the status was received), whether the forwarding
\* goroutine was started, whether the call has returned (wg.Done), the pod
\* that ForwardPorts targets while it runs, whether the call has called
\* GetPodName, the error of the status while it is being sent, the outcome
\* once it was received, how often stopChan was closed and how many status
\* events the call has emitted
NewForward(connection) ==
    [connection |-> connection, pc |-> "setup", spawned |-> FALSE,
     returned |-> FALSE, podName |-> "", resolved |-> FALSE, err |-> "",
     outcome |-> "", stops |-> 0, emitted |-> 0]

\* TargetPod that looks at ServiceName before PodName, the fault that C15
\* excludes
TargetPodServiceFirst(connection, answer) ==
    IF connection.ServiceName # ""
    THEN LET got == GetPodName(answer)
         IN  [podName |-> got.podName, err |-> got.err, resolved |-> TRUE]
    ELSE IF connection.PodName # ""
    THEN [podName |-> connection.PodName, err |-> "", resolved |-> FALSE]
    ELSE [podName |-> "", resolved |-> FALSE,
          err |-> "both ServiceName and PodName are empty"]

\* "Determine the target pod name": the pod, the error ("" for nil) and
\* whether GetPodName was called
TargetPod(connection, answer) ==
    IF connection.PodName # ""
    THEN [podName |-> connection.PodName, err |-> "", resolved |-> FALSE]
    ELSE IF connection.ServiceName # ""
    THEN LET got == GetPodName(answer)
         IN  [podName |-> got.podName, err |-> got.err, resolved |-> TRUE]
    ELSE [podName |-> "", resolved |-> FALSE,
          err |-> "both ServiceName and PodName are empty"]

\* the call up to the start of the forwarding goroutine: the error of the
\* first step that fails, in the order of the code ("" if none fails), the
\* pod targeted and whether GetPodName was called
SetupResult(connection, failure, answer) ==
    LET target == TargetPod(connection, answer)
    IN  IF failure \in {"kubeconfig", "clientset"}
        THEN [err |-> failure, podName |-> "", resolved |-> FALSE]
        ELSE IF target.err # ""
        THEN [err |-> target.err, podName |-> "",
              resolved |-> target.resolved]
        ELSE IF failure \in {"roundTripper", "forwarder"}
        THEN [err |-> failure, podName |-> target.podName,
              resolved |-> target.resolved]
        ELSE [err |-> "", podName |-> target.podName,
              resolved |-> target.resolved]

\* AfterSetup with a failed setup that returns without a status, the fault
\* that C7 excludes
AfterSetupSilent(forward, result) ==
    IF result.err # ""
    THEN [forward EXCEPT !.pc = "done", !.outcome = "Failed"]
    ELSE [forward EXCEPT !.pc = "forward", !.spawned = TRUE,
                         !.podName = result.podName]

\* the call after its setup: on an error it sends the status itself and
\* returns after the send; otherwise it starts the forwarding goroutine
AfterSetup(forward, result) ==
    IF result.err # ""
    THEN [forward EXCEPT !.pc = "send", !.err = result.err,
                         !.resolved = result.resolved]
    ELSE [forward EXCEPT !.pc = "forward", !.spawned = TRUE,
                         !.podName = result.podName,
                         !.resolved = result.resolved]

\* SetupPortForward from its start to its first send or to the go statement
PFSetup ==
  \E w \in DOMAIN forwards :
    /\ supPc \in {"loop", "drain"}
    /\ forwards[w].pc = "setup"
    /\ \E result \in {SetupResult(forwards[w].connection, failure, answer) :
                          failure \in SetupFailures \cup {"none"},
                          answer \in ClusterAnswers} :
          forwards' = [forwards EXCEPT ![w] = AfterSetup(forwards[w], result)]
    /\ UNCHANGED <<contexts, active, supPc, pending, records>>
    /\ UNCHANGED <<watchVars, mainVars, resolveVars>>

\* SetupPortForward returns and its deferred wg.Done runs: after the go
\* statement, or after the send of the status of a failed setup
PFReturn ==
  \E w \in DOMAIN forwards :
    /\ supPc \in {"loop", "drain"}
    /\ ~forwards[w].returned
    /\ \/ forwards[w].spawned
       \/ forwards[w].pc = "done"
    /\ forwards' = [forwards EXCEPT ![w].returned = TRUE]
    /\ wgCount' = wgCount - 1
    /\ UNCHANGED <<contexts, active, supPc, pending, records>>
    /\ UNCHANGED <<config, launchQueue, mainPc, workers, monitorPc, status,
                   exited>>
    /\ UNCHANGED <<watchVars, resolveVars>>

\* the errors ForwardPorts can return ("" for nil): it ends without error
\* when stopChan is closed, and with or without error, depending on the
\* library, when it cannot dial or listen or loses the connection
ForwardPortsResults ==
    {"", "lost connection to pod"}

\* ForwardPorts returns in the forwarding goroutine, which starts its send
\* of the status on statusCh
PFForwardPortsReturn ==
  \E w \in DOMAIN forwards :
    /\ supPc \in {"loop", "drain"}
    /\ forwards[w].pc = "forward"
    /\ \E err \in ForwardPortsResults :
          forwards' = [forwards EXCEPT ![w].pc = "send", ![w].err = err,
                                       ![w].podName = ""]
    /\ UNCHANGED <<contexts, active, supPc, pending, records>>
    /\ UNCHANGED <<watchVars, mainVars, resolveVars>>

\* the send on statusCh of call w completes: the event is emitted
Emit(w) ==
    [forwards EXCEPT ![w].pc = "done", ![w].emitted = @ + 1, ![w].err = "",
                     ![w].resolved = FALSE,
                     ![w].outcome = IF forwards[w].err = "" THEN "Cancelled"
                                    ELSE "Failed"]

\* the status that call w is sending on statusCh
StatusOf(w) ==
    [ServiceName |-> forwards[w].connection.ServiceName,
     Err |-> forwards[w].err]

(***************************************************************************)
(* The supervisor's event loop (section 4.4 of the design)                 *)
(***************************************************************************)
\* the serviceIdentity of a connection: its service name, or its pod name
Identity(connection) ==
    IF connection.ServiceName # "" THEN connection.ServiceName
    ELSE connection.PodName

\* the Connections of the ClusterContext called name; none if there is none
ConnectionsUnder(cfg, name) ==
    LET hits == {i \in DOMAIN cfg : cfg[i].Name = name}
    IN  IF hits = {} THEN <<>>
        ELSE cfg[CHOOSE i \in hits : \A j \in hits : i <= j].Connections

\* the workers that the supervisor tracks
Tracked ==
    {records[id] : id \in DOMAIN records}

\* the map without the record of identity id
Without(map, id) ==
    [x \in DOMAIN map \ {id} |-> map[x]]

\* one worker per connection of list is started after the calls made so far
\* (base), and recorded in map
StartWorkers(base, map, list) ==
    /\ Len(base) + Len(list) <= MaxForwards
    /\ forwards' = base \o [i \in 1..Len(list) |-> NewForward(list[i])]
    /\ records' =
          [id \in DOMAIN map \cup {Identity(list[i]) : i \in 1..Len(list)} |->
              LET hits == {i \in 1..Len(list) : Identity(list[i]) = id}
              IN  IF hits = {} THEN map[id]
                  ELSE Len(base) + CHOOSE i \in hits : \A j \in hits : j <= i]
    /\ wgCount' = wgCount + Len(list)

\* Restarts without the test for a drain, the fault that C2 excludes
RestartsWhileDraining(st, draining) ==
    st.Err # ""

\* a status event restarts its service if its outcome is Failed and it is
\* received outside the drain of a context switch
Restarts(st, draining) ==
    ~draining /\ st.Err # ""

\* startup: the context source is read and one worker is started for every
\* connection of the matching context
SupStartup ==
    /\ supPc = "start"
    /\ supPc' = "loop"
    /\ active' = kubeContext
    /\ StartWorkers(<<>>, <<>>, ConnectionsUnder(contexts, kubeContext))
    /\ UNCHANGED <<contexts, pending>>
    /\ UNCHANGED <<config, launchQueue, mainPc, workers, monitorPc, status,
                   exited>>
    /\ UNCHANGED <<watchVars, resolveVars>>

\* startup: the context source cannot be read, which is fatal
SupStartupFail ==
    /\ supPc = "start"
    /\ supPc' = "exited"
    /\ UNCHANGED <<contexts, active, pending, records, forwards>>
    /\ UNCHANGED <<watchVars, mainVars, resolveVars>>

\* the event loop receives a context-change notification: it triggers the
\* cancellation signal of every worker it tracks and starts the drain
SupContextChange ==
    /\ supPc = "loop"
    /\ WatchSent
    /\ sent' = Append(sent, [value |-> notifyVal, last |-> lastContext])
    /\ pending' = notifyVal
    /\ supPc' = "drain"
    /\ forwards' = [w \in DOMAIN forwards |->
                      IF w \in Tracked
                      THEN [forwards[w] EXCEPT !.stops = @ + 1]
                      ELSE forwards[w]]
    /\ UNCHANGED <<contexts, active, records>>
    /\ UNCHANGED <<kubeContext, reads, failedAt>>
    /\ UNCHANGED <<mainVars, resolveVars>>

\* the event loop receives the status event of worker w: a failure outside
\* a drain restarts the connection of that identity in the active context,
\* if there is one; otherwise the record is dropped; during a drain the
\* event is discarded
SupStatus ==
  \E w \in DOMAIN forwards :
    /\ supPc \in {"loop", "drain"}
    /\ forwards[w].pc = "send"
    /\ LET st == StatusOf(w)
           list == ConnectionsUnder(contexts, active)
           hits == {i \in 1..Len(list) : Identity(list[i]) = st.ServiceName}
       IN  IF Restarts(st, supPc = "drain") /\ hits # {}
           THEN StartWorkers(Emit(w), records,
                             <<list[CHOOSE i \in hits : \A j \in hits : i <= j]>>)
           ELSE /\ forwards' = Emit(w)
                /\ records' = IF supPc = "drain" THEN records
                              ELSE Without(records, st.ServiceName)
                /\ UNCHANGED wgCount
    /\ UNCHANGED <<contexts, active, supPc, pending>>
    /\ UNCHANGED <<config, launchQueue, mainPc, workers, monitorPc, status,
                   exited>>
    /\ UNCHANGED <<watchVars, resolveVars>>

\* the drain is over, every outstanding worker has reported: the map is
\* cleared, the new context becomes the active one and its workers start
SupDrainDone ==
    /\ supPc = "drain"
    /\ \A w \in DOMAIN forwards : forwards[w].pc = "done"
    /\ supPc' = "loop"
    /\ active' = pending
    /\ pending' = ""
    /\ StartWorkers(forwards, <<>>, ConnectionsUnder(contexts, pending))
    /\ UNCHANGED contexts
    /\ UNCHANGED <<config, launchQueue, mainPc, workers, monitorPc, status,
                   exited>>
    /\ UNCHANGED <<watchVars, resolveVars>>

\* a tick of the watcher on which GetCurrentContext succeeds
SupWatchTick ==
    /\ supPc \in {"loop", "drain"}
    /\ WatchRead(kubeContext)
    /\ UNCHANGED <<kubeContext, reads, sent, failedAt>>
    /\ UNCHANGED <<mainVars, supVars, resolveVars>>

\* a tick of the watcher on which GetCurrentContext fails
SupWatchTickFail ==
    /\ supPc \in {"loop", "drain"}
    /\ WatchFailed
    /\ UNCHANGED <<kubeContext, reads, sent, failedAt>>
    /\ UNCHANGED <<mainVars, supVars, resolveVars>>

\* the operator switches the kube context
SupSwitchContext ==
    /\ supPc \in {"loop", "drain"}
    /\ Len(sent) + (IF watchPc = "send" THEN 1 ELSE 0) < MaxSwitches
    /\ SwitchContext

InitSup ==
    /\ kubeContext \in CurrentContextValues
    /\ WatchStart
    /\ MainAbsent
    /\ contexts \in ContextSets
    /\ active = ""
    /\ supPc = "start"
    /\ pending = ""
    /\ records = <<>>
    /\ forwards = <<>>
    /\ ResolveAbsent

NextSup ==
    \/ SupStartup
    \/ SupStartupFail
    \/ SupContextChange
    \/ SupStatus
    \/ SupDrainDone
    \/ SupWatchTick
    \/ SupSwitchContext
    \/ SupWatchTickFail
    \/ PFSetup
    \/ PFReturn
    \/ PFForwardPortsReturn

SpecSup == InitSup /\ [][NextSup]_vars

(***************************************************************************)
(* Properties of the supervisor and of SetupPortForward                    *)
(***************************************************************************)
\* the connections of a list, as a set
Listed(list) ==
    {list[i] : i \in 1..Len(list)}

\* C2: when a context-change notification for context N is processed, the
\* cancellation signal of every worker that exists is triggered, and no
\* signal is ever triggered twice; no worker is started while the workers
\* are drained; and when the drain is over every earlier worker has
\* reported, N is the active context and the workers tracked are new ones,
\* one for each connection that the configuration lists under N.
C2_ContextSwitch ==
    /\ [](\A w \in DOMAIN forwards : forwards[w].stops <= 1)
    /\ [][(supPc = "loop" /\ supPc' = "drain") =>
            \A w \in DOMAIN forwards :
                forwards[w].pc # "done" => forwards'[w].stops = 1]_vars
    /\ [][(supPc = "drain" /\ supPc' = "drain") =>
            Len(forwards') = Len(forwards)]_vars
    /\ [][(supPc = "drain" /\ supPc' = "loop") =>
            /\ active' = pending
            /\ \A w \in DOMAIN forwards : forwards'[w].pc = "done"
            /\ Tracked' = (Len(forwards) + 1)..Len(forwards')
            /\ {forwards'[w].connection : w \in Tracked'}
                  = Listed(ConnectionsUnder(contexts, pending))
            /\ Cardinality(Tracked')
                  = Len(ConnectionsUnder(contexts, pending))]_vars

\* a switch from dev to staging was processed: the worker of dev's service
\* was cancelled once, its failure during the drain started no worker, and
\* the only other worker is the one of staging's connection
C2_Witness ==
    /\ supPc = "loop"
    /\ Len(sent) = 1
    /\ active = "staging"
    /\ Len(forwards) = 2
    /\ forwards[1].connection.ServiceName # ""
    /\ forwards[1].connection.PodName = ""
    /\ forwards[1].stops = 1
    /\ forwards[1].outcome = "Failed"
    /\ forwards[2].connection.Namespace = ProfileNamespace("staging")
    /\ Tracked = {2}

\* C7: a call of SetupPortForward emits one status event over its lifetime:
\* none while it sets up, forwards or is sending, one once its send is
\* received, and a call that returned without starting the forwarding
\* goroutine has emitted its event.
C7_ExactlyOneStatus ==
    \A w \in DOMAIN forwards :
        /\ forwards[w].emitted = IF forwards[w].pc = "done" THEN 1 ELSE 0
        /\ (forwards[w].returned /\ ~forwards[w].spawned) =>
              forwards[w].emitted = 1

\* one call failed in its setup and one call ran the tunnel to its end;
\* both have returned and each has emitted one status event
C7_Witness ==
    \E w, x \in DOMAIN forwards :
        /\ forwards[w].pc = "done" /\ ~forwards[w].spawned
        /\ forwards[w].returned /\ forwards[w].emitted = 1
        /\ forwards[x].pc = "done" /\ forwards[x].spawned
        /\ forwards[x].returned /\ forwards[x].emitted = 1

(***************************************************************************)
(* Properties of package main                                              *)
(***************************************************************************)
\* the calls of setupPortForward started for the failure of call w
Replacements(w) ==
    {x \in DOMAIN workers : workers[x].replaces = w}

\* the monitor has received a status with an error from call w
FailureReceived(w) ==
    /\ workers[w].inner \in {"sent", "done"}
    /\ workers[w].err # ""

\* the service of call w is defined in the configuration
Defined(w) ==
    \E p \in DOMAIN config :
        \E i \in 1..Len(config[p]) :
            config[p][i].Name = workers[w].service.Name

\* C1: a failure of a service that the configuration defines is followed by
\* exactly one replacement: never more than one, and main does not return
\* from wg.Wait (ending the process) while a received failure has none.
C1_FailureAlwaysReplaced ==
    \A w \in DOMAIN workers :
        (FailureReceived(w) /\ Defined(w)) =>
            /\ Cardinality(Replacements(w)) <= 1
            /\ exited = "main" => Cardinality(Replacements(w)) = 1

\* the tunnel of call w is being set up or is running
Live(w) ==
    \/ workers[w].outer = "setup"
    \/ workers[w].inner = "forward"

\* C3: no two workers that are starting or running have the same
\* serviceIdentity (the service's name).
C3_OneWorkerPerIdentity ==
    \A w, x \in DOMAIN workers :
        (w # x /\ Live(w) /\ Live(x)) =>
            workers[w].service.Name # workers[x].service.Name

\* the services that the configuration lists under profile p
ListedUnder(cfg, p) ==
    IF p \in DOMAIN cfg THEN {cfg[p][i] : i \in 1..Len(cfg[p])} ELSE {}

\* the services that main's startup loops launched a worker for
Launched ==
    {workers[w].service : w \in {x \in DOMAIN workers : workers[x].replaces = 0}}

\* C4: once startup has launched its workers, they are the workers of
\* exactly the services listed under the context read at startup.
C4_StartupLaunchesActiveContext ==
    mainPc = "wait" => Launched = ListedUnder(config, kubeContext)

\* C8: a replacement is started with the same service (name, namespace,
\* local and remote port) as the worker whose failure it replaces.
C8_ReplacementSameConnection ==
    \A w \in DOMAIN workers :
        workers[w].replaces # 0 =>
            workers[w].service = workers[workers[w].replaces].service

\* C9: a status without error starts no worker: the step in which the
\* monitor receives it leaves the workers, the WaitGroup and the monitor as
\* they are, and every replacement stands for a worker that reported an error.
C9_CancelledNeverRestarts ==
    /\ [](\A w \in DOMAIN workers :
            workers[w].replaces # 0 => workers[workers[w].replaces].err # "")
    /\ [](monitorPc = "restart" => status.Err # "")
    /\ [][\A w \in DOMAIN workers :
            (/\ workers[w].inner = "send"
             /\ workers[w].err = ""
             /\ workers'[w].inner = "sent")
            => (/\ Len(workers') = Len(workers)
                /\ wgCount' = wgCount
                /\ monitorPc' = "recv")]_vars

\* a worker ended without error, the monitor received its status and is
\* back at its receive, and no worker was started for it
C9_Witness ==
    \E w \in DOMAIN workers :
        /\ workers[w].inner \in {"sent", "done"}
        /\ workers[w].err = ""
        /\ Replacements(w) = {}
        /\ monitorPc = "recv"
        /\ exited = "no"

\* C10: a failure to resolve the pod of a service is never fatal to the
\* process.
C10_ResolutionFailureNotFatal ==
    exited # "resolve"

\* C11: the status event that a worker sends carries the serviceIdentity of
\* the worker's connection: its service name or, for a connection given by
\* pod name only, its pod name.
C11_StatusIdentifiesConnection ==
    \A w \in DOMAIN forwards :
        forwards[w].pc = "send" =>
            StatusOf(w).ServiceName = Identity(forwards[w].connection)

\* C16: the WaitGroup count of a call of SetupPortForward is released only
\* after the call's status event was emitted.
C16_DoneAfterStatus ==
    \A w \in DOMAIN forwards :
        forwards[w].returned => forwards[w].emitted = 1

\* C12: once started with services to forward, main never returns: the
\* process does not end on its own.
C12_NeverTerminates ==
    workers # <<>> => exited # "main"

\* C17: when ForwardPorts has returned, the call of setupPortForward that
\* waits on readyChan is released: readyChan is closed or the call returned.
C17_CallReleased ==
    \A w \in DOMAIN workers :
        workers[w].inner \in {"send", "sent", "done"} =>
            (workers[w].ready \/ workers[w].outer = "returned")

\* C13: a tick whose read fails sends no notification, leaves the baseline
\* unchanged and leaves the watcher waiting for its next tick; between ticks
\* the baseline is the value of the last successful read, whatever reads
\* failed since.
C13_FailedReadKeepsBaseline ==
    /\ [][failedAt' # failedAt =>
            /\ lastContext' = lastContext
            /\ Notified' = Notified
            /\ watchPc' = "tick"]_vars
    /\ []((watchPc = "tick" /\ reads # <<>>) => lastContext = reads[Len(reads)])

\* a read failed after the baseline read, the next successful read saw
\* another context, and the notification received for it names that baseline
C13_Witness ==
    \E i \in 1..Len(failedAt) :
        /\ failedAt[i] = 1
        /\ Len(reads) = 2
        /\ reads[1] # ""
        /\ reads[2] # reads[1]
        /\ Len(sent) = 1
        /\ sent[1] = [value |-> reads[2], last |-> reads[1]]
        /\ lastContext = reads[2]

\* C14: GetPodName returns an error and an empty pod name when the service
\* lookup fails, when the service has no selector, when the pod listing fails
\* and when no pod matches; otherwise it returns the first pod of the listing
\* and no error.
C14_GetPodNameResult ==
    resolution.called =>
        LET answer == resolution.answer
            fails == \/ answer.service # "found"
                     \/ answer.listErr
                     \/ answer.items = <<>>
        IN  IF fails
            THEN resolution.err # "" /\ resolution.podName = ""
            ELSE resolution.err = "" /\ resolution.podName = Head(answer.items)

\* GetPodName was called for a service whose selector matches two pods and
\* returned the first
C14_Witness ==
    /\ resolution.called
    /\ resolution.answer.service = "found"
    /\ ~resolution.answer.listErr
    /\ Len(resolution.answer.items) = 2
    /\ resolution.answer.items[1] # resolution.answer.items[2]
    /\ resolution.podName = resolution.answer.items[1]
    /\ resolution.err = ""

\* C15: a call of SetupPortForward calls GetPodName only for a connection
\* whose PodName is empty and whose ServiceName is not; for a connection that
\* gives a PodName, with or without a ServiceName, ForwardPorts targets
\* exactly that pod and GetPodName is not called.
C15_PodNameTakesPrecedence ==
    \A w \in DOMAIN forwards :
        LET connection == forwards[w].connection
        IN  /\ forwards[w].resolved =>
                  (connection.PodName = "" /\ connection.ServiceName # "")
            /\ (connection.PodName # "" /\ forwards[w].pc = "forward") =>
                  forwards[w].podName = connection.PodName

\* a connection that names both a service and a pod is being forwarded to
\* that pod, and GetPodName was not called
C15_Witness ==
    \E w \in DOMAIN forwards :
        /\ forwards[w].connection.ServiceName = "api"
        /\ forwards[w].connection.PodName = "pod-0"
        /\ forwards[w].pc = "forward"
        /\ forwards[w].podName = "pod-0"
        /\ ~forwards[w].resolved

\* C18: if, after any number of switches, the context of the kubeconfig stays
\* at v for ever, then from some point on the watcher's baseline is v, it
\* has nothing left to send, and the last notification delivered, if any
\* was, is v.
C18_SettlesOnLastContext ==
    \A v \in KubeconfigContexts :
        <>[](kubeContext = v) =>
            <>[](/\ lastContext = v
                 /\ watchPc = "tick"
                 /\ sent # <<>> => sent[Len(sent)].value = v)

\* the context changed while the watcher was blocked sending the first
\* change: two notifications were delivered, the second one for a context
\* other than the one first sent, and baseline and last notification are
\* the current context
C18_Witness ==
    /\ Len(sent) = 2
    /\ sent[2].last = sent[1].value
    /\ sent[2].value = kubeContext
    /\ lastContext = kubeContext
    /\ watchPc = "tick"

====
